---------------------------- MODULE Spec2Model ----------------------------
(* A model of springboard_functions.py: read_data, get_new_data and the     *)
(* reconciliation driver Springboard_data.                                  *)
(*                                                                          *)
(* Dates are day ordinals inside one year of a small calendar. Text forms   *)
(* of a date are kept apart from the date itself: the upstream feed and the *)
(* original store file write a date day-first, DataFrame.to_csv writes it   *)
(* year-month-day, and pd.to_datetime(..., dayfirst = True) reads both.     *)
EXTENDS Integers, Sequences, FiniteSets, TLC

(***************************************************************************)
(* Bounds of the model                                                     *)
(***************************************************************************)
MaxRows == 2          \* data rows of a response given to get_new_data by itself
MaxBatch == 1         \* data rows of a response answered to Springboard_data
MaxCount == 2         \* largest InCount / OutCount of one raw row
DaysInMonth == 2      \* length of a month of the model's calendar
MaxDay == 4           \* last wall-clock day of the model
MaxRuns == 2          \* runs of Springboard_data in one behaviour

Locations == {"CameraA", "CameraB"}
AllCols == {"LocationName", "FootfallDate", "FootfallTime", "InCount", "OutCount"}

\* A cell of the raw table that pd.to_numeric rejects.
NonNumeric == -1
\* A missing cell of a DataFrame (blank in the CSV file).
NaN == -1

Max2(a, b) == IF a >= b THEN a ELSE b

(***************************************************************************)
(* Dates and their text forms                                              *)
(***************************************************************************)
MonthOf(n) == ((n - 1) \div DaysInMonth) + 1
DayOf(n) == ((n - 1) % DaysInMonth) + 1
Ordinal(m, d) == (m - 1) * DaysInMonth + d

\* "dd/mm/yyyy" as the feed and the original store write it
DayFirstText(n) == [iso |-> FALSE, a |-> DayOf(n), b |-> MonthOf(n)]
\* "yyyy-mm-dd" as DataFrame.to_csv writes a DatetimeIndex
IsoText(n) == [iso |-> TRUE, a |-> MonthOf(n), b |-> DayOf(n)]

\* pd.to_datetime(text, dayfirst = True): an ISO 8601 string is read as
\* year-month-day, any other string with the day first.
ToDatetime(t) == IF t.iso THEN Ordinal(t.a, t.b) ELSE Ordinal(t.b, t.a)

\* order of two date strings as strings (the order groupby sorts its keys in)
TextLess(s, t) == s.a < t.a \/ (s.a = t.a /\ s.b < t.b)

(***************************************************************************)
(* get_new_data: the upstream response, the parser and the aggregator      *)
(***************************************************************************)
\* Number of child nodes of the parsed <table> element: below, at and above
\* the value the code compares len(table) with.
ChildCounts == {2, 3, 4}

\* Header rows the feed can send: the location, date and time columns, with
\* or without each of the two count columns.
Headers == {AllCols \ S : S \in SUBSET {"InCount", "OutCount"}}

RequiredColumns == <<"InCount", "OutCount">>

\* The result of get_new_data: an exception, or the returned grouped_df.
Raised(e) == [err |-> e, df |-> [cols |-> {}, rows |-> <<>>]]
Returned(t) == [err |-> "none", df |-> t]

\* pd.to_numeric(new_data[column]) succeeds iff every cell is numeric.
AllNumeric(rows, column) == \A i \in 1..Len(rows) : rows[i][column] # NonNumeric

\* The loop over required_columns, from its i-th column on: "ok" or the
\* exception it raises.
RECURSIVE CheckRequired(_, _, _)
CheckRequired(header, rows, i) ==
    IF i > Len(RequiredColumns) THEN "ok"
    ELSE IF RequiredColumns[i] \notin header THEN "MissingColumns"
    ELSE IF ~AllNumeric(rows, RequiredColumns[i]) THEN "Malformed"
    ELSE CheckRequired(header, rows, i + 1)

\* Faulty variant of GroupSum: the value of the group's first row alone.
GroupSumFirstOnly(rows, loc, date, column) ==
    LET idx == {i \in 1..Len(rows) : rows[i].LocationName = loc /\ rows[i].FootfallDate = date}
    IN  IF idx = {} THEN 0
        ELSE rows[CHOOSE i \in idx : \A j \in idx : i <= j][column]

\* groupby(["LocationName","FootfallDate"])[column].transform("sum"), for the
\* group of (loc, date).
RECURSIVE GroupSum(_, _, _, _)
GroupSum(rows, loc, date, column) ==
    IF rows = <<>> THEN 0
    ELSE LET r == Head(rows)
         IN  (IF r.LocationName = loc /\ r.FootfallDate = date THEN r[column] ELSE 0)
             + GroupSum(Tail(rows), loc, date, column)

InDayTotal(rows, i) == GroupSum(rows, rows[i].LocationName, rows[i].FootfallDate, "InCount")
OutDayTotal(rows, i) == GroupSum(rows, rows[i].LocationName, rows[i].FootfallDate, "OutCount")

\* new_data[["InDayTotal","OutDayTotal"]].max(axis=1)
InOutMax(rows, i) == Max2(InDayTotal(rows, i), OutDayTotal(rows, i))

InGroup(rows, i, date, loc) == rows[i].FootfallDate = date /\ rows[i].LocationName = loc

\* groupby(["FootfallDate","LocationName"])["InOutMax"].aggregate("first"):
\* the InOutMax of the group's first row; unstack leaves NaN for no group.
GroupFirst(rows, date, loc) ==
    IF \E i \in 1..Len(rows) : InGroup(rows, i, date, loc)
    THEN LET f == CHOOSE i \in 1..Len(rows) :
                      /\ InGroup(rows, i, date, loc)
                      /\ \A j \in 1..(i - 1) : ~InGroup(rows, j, date, loc)
         IN  InOutMax(rows, f)
    ELSE NaN

FillNa(v) == IF v = NaN THEN 0 ELSE v

\* The group keys in the order groupby gives them: sorted as strings.
RECURSIVE SortTexts(_)
SortTexts(S) ==
    IF S = {} THEN <<>>
    ELSE LET m == CHOOSE x \in S : \A y \in S \ {x} : TextLess(x, y)
         IN  <<m>> \o SortTexts(S \ {m})

\* .unstack().fillna(0).astype("int"): one row per date string, in the
\* order of the strings, one column per location.
Unstack(rows) ==
    LET dates == {rows[i].FootfallDate : i \in 1..Len(rows)}
        locs == {rows[i].LocationName : i \in 1..Len(rows)}
        keys == SortTexts(dates)
    IN  [cols |-> locs,
         rows |-> [k \in 1..Len(keys) |->
                     [date |-> keys[k],
                      cells |-> [l \in locs |-> FillNa(GroupFirst(rows, keys[k], l))]]]]

\* grouped_df["Date"] = pd.to_datetime(grouped_df["Date"], dayfirst = True)
ParseIndex(t) ==
    [cols |-> t.cols,
     rows |-> [k \in 1..Len(t.rows) |->
                 [date |-> ToDatetime(t.rows[k].date), cells |-> t.rows[k].cells]]]

\* Insert a row into a sequence of rows sorted by date, after its equals.
RECURSIVE InsertRow(_, _)
InsertRow(sorted, r) ==
    IF sorted = <<>> THEN <<r>>
    ELSE IF r.date < Head(sorted).date THEN <<r>> \o sorted
    ELSE <<Head(sorted)>> \o InsertRow(Tail(sorted), r)

RECURSIVE SortRows(_)
SortRows(rs) ==
    IF rs = <<>> THEN <<>>
    ELSE InsertRow(SortRows(SubSeq(rs, 1, Len(rs) - 1)), rs[Len(rs)])

\* Faulty variant of SortIndex: the rows left in the order of the strings.
SortIndexSkipped(t) == t

\* grouped_df.sort_index(inplace = True)
SortIndex(t) == [cols |-> t.cols, rows |-> SortRows(t.rows)]

\* The elif branch of get_new_data: the table has more than three children.
\* With a header row and no data row the same lines run on a frame without
\* rows and return a frame without rows.
ParseAndAggregate(header, rows) ==
    LET chk == CheckRequired(header, rows, 1)
    IN  IF chk # "ok" THEN Raised(chk)
        ELSE IF "LocationName" \notin header THEN Raised("KeyError")
        ELSE Returned(SortIndex(ParseIndex(Unstack(rows))))

get_new_data(resp) ==
    IF resp.kind = "NetworkError" THEN Raised("NetworkError")
    ELSE IF resp.kind = "NoTable" THEN Raised("TypeError")
    ELSE IF resp.nchildren = 3 THEN Raised("NoData")
    ELSE IF resp.nchildren > 3 THEN ParseAndAggregate(resp.header, resp.rows)
    ELSE Raised("UnboundLocalError")

(***************************************************************************)
(* The store files: read_data, DataFrame.to_csv, pd.concat                 *)
(***************************************************************************)
NoFile == [exists |-> FALSE, cols |-> {}, rows |-> <<>>]

\* read_data: the index column parsed with dayfirst = True.
read_data(file) ==
    [cols |-> file.cols,
     rows |-> [k \in 1..Len(file.rows) |->
                 [date |-> ToDatetime(file.rows[k].date), cells |-> file.rows[k].cells]]]

\* DataFrame.to_csv(path, index = True): the index written year-month-day.
to_csv(t) ==
    [exists |-> TRUE,
     cols |-> t.cols,
     rows |-> [k \in 1..Len(t.rows) |->
                 [date |-> IsoText(t.rows[k].date), cells |-> t.rows[k].cells]]]

\* A row of a frame widened to the columns cols, NaN where it has no cell.
Widen(r, cols) ==
    [date |-> r.date,
     cells |-> [l \in cols |-> IF l \in DOMAIN r.cells THEN r.cells[l] ELSE NaN]]

\* pd.concat([a, b]): the rows of a, then the rows of b, over the union of
\* the columns.
Concat(a, b) ==
    LET cols == a.cols \cup b.cols
    IN  [cols |-> cols,
         rows |-> [k \in 1..(Len(a.rows) + Len(b.rows)) |->
                     IF k <= Len(a.rows) THEN Widen(a.rows[k], cols)
                     ELSE Widen(b.rows[k - Len(a.rows)], cols)]]

\* The dates of the rows where the column has a value:
\* ff_to_date[ff_to_date[column].notnull()].index
NotNullDates(t, column) ==
    {t.rows[k].date : k \in {j \in 1..Len(t.rows) : t.rows[j].cells[column] # NaN}}

SetMax(S) == CHOOSE x \in S : \A y \in S : y <= x
SetMin(S) == CHOOSE x \in S : \A y \in S : x <= y

\* pd.DataFrame(index = ["Date"]): one row labelled "Date" (no date), no column.
EmptyFrame == [cols |-> {}, rows |-> <<[date |-> 0, cells |-> <<>>]>>]

(***************************************************************************)
(* Upstream responses                                                      *)
(***************************************************************************)
\* The sequences over S of length n or less.
SeqsUpTo(S, n) == UNION {[1..k -> S] : k \in 0..n}

RawRows(locs, dates, ins, outs) ==
    [LocationName : locs, FootfallDate : {DayFirstText(d) : d \in dates},
     InCount : ins, OutCount : outs]

Tables(counts, headers, rowset, n) ==
    [kind : {"Table"}, nchildren : counts, header : headers,
     rows : SeqsUpTo(rowset, n)]

\* requests.get raises; the page holds no <table>.
NoResponse == [kind : {"NetworkError", "NoTable"}, nchildren : {0}, header : {{}}, rows : {<<>>}]

\* The response of the end-to-end scenario: two rows for CameraA on day 2,
\* both with in = 30 and out = 20.
ScenarioRow ==
    [LocationName |-> "CameraA", FootfallDate |-> DayFirstText(2),
     InCount |-> 30, OutCount |-> 20]
ScenarioResponse ==
    [kind |-> "Table", nchildren |-> 4, header |-> AllCols,
     rows |-> <<ScenarioRow, ScenarioRow>>]

\* What the server can answer to a request for [from, to], the rows dated
\* inside the range: a well-formed table of rows of any location in any
\* order; a table of any child count and header with at most one row, whose
\* count may be unreadable; no table; no answer. Springboard_data sees of the
\* response only what get_new_data raises or returns.
DriverResponses(from, to) ==
    NoResponse \cup
    Tables({n \in ChildCounts : n > 3}, {AllCols},
           RawRows(Locations, from..to, {1}, {0}), MaxBatch) \cup
    Tables(ChildCounts, Headers,
           RawRows(Locations, from..to, {1, NonNumeric}, {0}), 1) \cup
    (IF 2 \in from..to THEN {ScenarioResponse} ELSE {})

\* The inputs get_new_data is checked on by itself. Two days whose order as
\* strings is the reverse of their order as dates.
AggDates == {DaysInMonth, DaysInMonth + 1}

\* Responses of every shape of up to n rows, with unit counts or unreadable
\* cells.
ShapeResponses(n) ==
    NoResponse \cup
    Tables(ChildCounts, Headers,
           RawRows(Locations, AggDates, {1, NonNumeric}, {1, NonNumeric}), n)

\* Well-formed responses of up to n rows with every count.
EventResponses(n) ==
    Tables({c \in ChildCounts : c > 3}, {AllCols},
           RawRows(Locations, AggDates, 0..MaxCount, 0..MaxCount), n)

AggResponses(n) == ShapeResponses(n) \cup EventResponses(n) \cup {ScenarioResponse}

(***************************************************************************)
(* Springboard_data                                                        *)
(***************************************************************************)
VARIABLES
    store,                 \* the file at new_data_filepath
    backup,                \* the file at backup_data_filepath
    today,                 \* the day of datetime.datetime.now()
    primary_camera_name,   \* argument of Springboard_data
    backup_data_filepath,  \* argument: TRUE when a backup path is given
    pc,                    \* position of the running call
    ff_to_date, latest_date, first_date, old_data_found,
    startdate, yesterday,  \* locals of Springboard_data
    resp,                  \* the response to the request of this run
    fetched,               \* what get_new_data raised or returned
    outcome,               \* how the run ended
    store0,                \* the store file as it was when the run began
    requests,              \* the ranges requested from upstream in this run
    writes,                \* writes to new_data_filepath in this run
    backed_up,             \* the backup file was written in this run
    runs,                  \* runs begun so far
    after                  \* the run that ended just before this one, same day

vars == <<store, backup, today, primary_camera_name, backup_data_filepath, pc,
          ff_to_date, latest_date, first_date, old_data_found, startdate,
          yesterday, resp, fetched, outcome, store0, requests, writes,
          backed_up, runs, after>>

args == <<primary_camera_name, backup_data_filepath>>
locals == <<ff_to_date, latest_date, first_date, old_data_found, startdate, yesterday>>

\* A local that is not bound yet.
Unbound == -1
\* datetime(1997,1,1), the start date meant for a first run.
FarPast == 0

NoResp == [kind |-> "none", nchildren |-> 0, header |-> {}, rows |-> <<>>]
NoRun == [outcome |-> "none", df |-> [cols |-> {}, rows |-> <<>>], yesterday |-> Unbound]

\* A store file as read_data's docstring describes it: dates day-first,
\* ascending, one row per day from day 1 to day last, every cell filled.
SeedFile(cols, last) ==
    [exists |-> TRUE, cols |-> cols,
     rows |-> [k \in 1..last |-> [date |-> DayFirstText(k), cells |-> [l \in cols |-> 1]]]]

\* The store of the end-to-end scenario: {day 1: CameraA = 100}.
ScenarioStore ==
    [exists |-> TRUE, cols |-> {"CameraA"},
     rows |-> <<[date |-> DayFirstText(1), cells |-> [l \in {"CameraA"} |-> 100]]>>]

InitStores ==
    {NoFile, ScenarioStore} \cup
    {SeedFile(c, k) : c \in (SUBSET Locations) \ {{}}, k \in 1..2}

FreshLocals ==
    /\ ff_to_date = [cols |-> {}, rows |-> <<>>]
    /\ latest_date = Unbound
    /\ first_date = Unbound
    /\ old_data_found = FALSE
    /\ startdate = Unbound
    /\ yesterday = Unbound

\* The locals of a call that has not run a line yet.
ResetLocals ==
    /\ ff_to_date' = [cols |-> {}, rows |-> <<>>]
    /\ latest_date' = Unbound
    /\ first_date' = Unbound
    /\ old_data_found' = FALSE
    /\ startdate' = Unbound
    /\ yesterday' = Unbound

\* Everything but the store, the arguments and the position.
InitRest ==
    /\ backup = NoFile
    /\ today = 2
    /\ FreshLocals
    /\ resp = NoResp
    /\ fetched = Raised("none")
    /\ outcome = "none"
    /\ store0 = store
    /\ requests = <<>>
    /\ writes = 0
    /\ backed_up = FALSE
    /\ runs = 0
    /\ after = NoRun

Init ==
    /\ store \in InitStores
    /\ primary_camera_name \in Locations
    /\ backup_data_filepath \in BOOLEAN
    /\ pc = "idle"
    /\ InitRest

\* A call of Springboard_data begins.
StartRun ==
    /\ pc \in {"idle", "done"}
    /\ runs < MaxRuns
    /\ pc' = "load"
    /\ runs' = runs + 1
    /\ after' = IF pc = "done"
                THEN [outcome |-> outcome, df |-> fetched.df, yesterday |-> yesterday]
                ELSE NoRun
    /\ store0' = store
    /\ ResetLocals
    /\ resp' = NoResp
    /\ fetched' = Raised("none")
    /\ outcome' = "none"
    /\ requests' = <<>>
    /\ writes' = 0
    /\ backed_up' = FALSE
    /\ UNCHANGED <<store, backup, today, args>>

\* The first half of the try block: read_data, latest_date, first_date.
Load ==
    /\ pc = "load"
    /\ IF ~store.exists
       THEN \* except FileNotFoundError
            /\ ff_to_date' = EmptyFrame
            /\ old_data_found' = FALSE
            /\ pc' = "range"
            /\ UNCHANGED <<latest_date, first_date, outcome>>
       ELSE LET df == read_data(store)
            IN  /\ ff_to_date' = df
                /\ UNCHANGED old_data_found
                /\ IF primary_camera_name \notin df.cols
                   THEN /\ outcome' = "KeyError"
                        /\ pc' = "done"
                        /\ UNCHANGED <<latest_date, first_date>>
                   ELSE IF NotNullDates(df, primary_camera_name) = {}
                   THEN /\ outcome' = "ValueError"
                        /\ pc' = "done"
                        /\ UNCHANGED <<latest_date, first_date>>
                   ELSE /\ latest_date' = SetMax(NotNullDates(df, primary_camera_name))
                        /\ first_date' = SetMin(NotNullDates(df, primary_camera_name))
                        /\ pc' = "backup"
                        /\ UNCHANGED outcome
    /\ UNCHANGED <<store, backup, today, args, startdate, yesterday, resp, fetched,
                   store0, requests, writes, backed_up, runs, after>>

\* Faulty variant of BackupFile: the backup is never written.
BackupFileSkipped(old, loaded, path) == old

\* The backup file after "if backup_data_filepath: ff_to_date.to_csv(...)".
BackupFile(old, loaded, path) == IF path THEN to_csv(loaded) ELSE old

\* The second half of the try block.
Backup ==
    /\ pc = "backup"
    /\ backup' = BackupFile(backup, ff_to_date, backup_data_filepath)
    /\ backed_up' = backup_data_filepath
    /\ old_data_found' = TRUE
    /\ pc' = "range"
    /\ UNCHANGED <<store, today, args, ff_to_date, latest_date, first_date, startdate,
                   yesterday, resp, fetched, outcome, store0, requests, writes, runs,
                   after>>

\* Faulty variant of StartDate: the last stored day is requested again.
StartDateSameDay(latest) == latest

\* startdate of a run that found old data.
StartDate(latest) == latest + 1

\* "if old_data_found: ... else: startdate = datetime(1997,1,1)", where
\* datetime is the module: the call raises TypeError. Then yesterday.
Range ==
    /\ pc = "range"
    /\ IF old_data_found
       THEN /\ startdate' = StartDate(latest_date)
            /\ yesterday' = today - 1
            /\ pc' = "check"
            /\ UNCHANGED outcome
       ELSE /\ outcome' = "TypeError"
            /\ pc' = "done"
            /\ UNCHANGED <<startdate, yesterday>>
    /\ UNCHANGED <<store, backup, today, args, ff_to_date, latest_date, first_date,
                   old_data_found, resp, fetched, store0, requests, writes,
                   backed_up, runs, after>>

\* Faulty variant of NeedsFetch: off by one day.
NeedsFetchOffByOne(latest, yest) == latest <= yest

\* if (latest_date + datetime.timedelta(1)) <= yesterday
NeedsFetch(latest, yest) == latest + 1 <= yest

Check ==
    /\ pc = "check"
    /\ IF latest_date = Unbound
       THEN /\ outcome' = "UnboundLocalError"
            /\ pc' = "done"
       ELSE IF NeedsFetch(latest_date, yesterday)
       THEN /\ pc' = "fetch"
            /\ UNCHANGED outcome
       ELSE /\ outcome' = "AlreadyCurrent"
            /\ pc' = "done"
    /\ UNCHANGED <<store, backup, today, args, locals, resp, fetched, store0,
                   requests, writes, backed_up, runs, after>>

\* Faulty variant of AfterFetch: the exception is swallowed.
AfterFetchAlwaysWrites(res) == "write"

\* Where the run goes once get_new_data has raised or returned.
AfterFetch(res) == IF res.err = "none" THEN "write" ELSE "done"

\* grouped_df = get_new_data(...)
Fetch ==
    /\ pc = "fetch"
    /\ \E r \in DriverResponses(startdate, yesterday) :
          /\ resp' = r
          /\ fetched' = get_new_data(r)
    /\ requests' = Append(requests, <<startdate, yesterday>>)
    /\ pc' = AfterFetch(fetched')
    /\ outcome' = IF fetched'.err = "none" THEN outcome ELSE fetched'.err
    /\ UNCHANGED <<store, backup, today, args, locals, store0, writes, backed_up,
                   runs, after>>

\* new_df = pd.concat(frames); new_df.to_csv(new_data_filepath, index = True)
Write ==
    /\ pc = "write"
    /\ store' = to_csv(Concat(ff_to_date, fetched.df))
    /\ writes' = writes + 1
    /\ outcome' = "Saved"
    /\ pc' = "done"
    /\ UNCHANGED <<backup, today, args, locals, resp, fetched, store0, requests,
                   backed_up, runs, after>>

\* Midnight passes between two runs.
Tick ==
    /\ pc \in {"idle", "done"}
    /\ today < MaxDay
    /\ today' = today + 1
    /\ pc' = "idle"
    /\ ResetLocals
    /\ resp' = NoResp
    /\ fetched' = Raised("none")
    /\ outcome' = "none"
    /\ store0' = store
    /\ requests' = <<>>
    /\ writes' = 0
    /\ backed_up' = FALSE
    /\ after' = NoRun
    /\ UNCHANGED <<store, backup, args, runs>>

Next == StartRun \/ Load \/ Backup \/ Range \/ Check \/ Fetch \/ Write \/ Tick

Spec == Init /\ [][Next]_vars

(***************************************************************************)
(* get_new_data by itself, on every response of AggResponses               *)
(***************************************************************************)
AggInit ==
    /\ store = NoFile
    /\ primary_camera_name = "CameraA"
    /\ backup_data_filepath = FALSE
    /\ pc = "agg_call"
    /\ backup = NoFile
    /\ today = 2
    /\ FreshLocals
    /\ resp \in AggResponses(MaxRows)
    /\ fetched = Raised("none")
    /\ outcome = "none"
    /\ store0 = NoFile
    /\ requests = <<>>
    /\ writes = 0
    /\ backed_up = FALSE
    /\ runs = 0
    /\ after = NoRun

AggCall ==
    /\ pc = "agg_call"
    /\ fetched' = get_new_data(resp)
    /\ pc' = "agg_done"
    /\ UNCHANGED <<store, backup, today, args, locals, resp, outcome, store0,
                   requests, writes, backed_up, runs, after>>

AggNext == AggCall

SpecAgg == AggInit /\ [][AggNext]_vars

(***************************************************************************)
(* Properties                                                              *)
(***************************************************************************)
\* get_new_data was called in this run and raised.
FetchFailed == requests # <<>> /\ fetched.err # "none"
\* get_new_data was called in this run and returned a table.
FetchReturned == requests # <<>> /\ fetched.err = "none"

RunEnded == pc = "done"

\* C1: a run whose get_new_data raises ends without a write, the store file
\* being what it was when the run began; and the store is written only
\* after get_new_data has returned, with the loaded table followed by the
\* returned one.
C1_FailedFetchLeavesStore ==
    /\ FetchFailed => /\ RunEnded
                      /\ outcome = fetched.err
                      /\ writes = 0
                      /\ store = store0
    /\ writes > 0 => /\ FetchReturned
                     /\ writes = 1
                     /\ store = to_csv(Concat(read_data(store0), fetched.df))
    /\ writes = 0 => store = store0

C1_Witness ==
    /\ RunEnded
    /\ FetchFailed
    /\ fetched.err = "Malformed"
    /\ store0.exists
    /\ store = store0

\* C2 (as claimed): a run that finds no store file does not fail before the
\* fetch: it requests [FarPast, yesterday] and, when get_new_data returns,
\* ends Saved with the aggregated rows in the store.
C2_NoHistoryFetchesAndSaves ==
    (RunEnded /\ ~store0.exists) =>
        /\ requests = << <<FarPast, today - 1>> >>
        /\ fetched.err = "none" => (outcome = "Saved" /\ read_data(store).rows = fetched.df.rows)

\* The run just before this one, on the same day, ended Saved.
SecondRunAfterSaved == pc \in {"load", "backup", "range", "check", "fetch", "write", "done"}
                       /\ after.outcome = "Saved"

SkipsFetchAndWrite ==
    /\ requests = <<>>
    /\ writes = 0
    /\ pc # "fetch"
    /\ pc # "write"
    /\ RunEnded => outcome = "AlreadyCurrent"

\* C3 (as claimed): a run right after a run that ended Saved, on the same
\* day, ends AlreadyCurrent without a fetch and without a write, whatever
\* data rows the first run was answered with.
C3_SecondRunAlreadyCurrent ==
    (SecondRunAfterSaved /\ after.df.rows # <<>>) => SkipsFetchAndWrite

\* The batch has the column of the primary location and a row for the last
\* requested day.
CoversYesterday(df, primary, yest) ==
    /\ primary \in df.cols
    /\ \E k \in 1..Len(df.rows) : df.rows[k].date = yest

\* C3 (amended): the second run ends AlreadyCurrent without a fetch and
\* without a write when the batch of the first run held the primary location
\* and a row dated yesterday; when it did not, the second run fetches again.
C3_SecondRunCurrentWhenCovered ==
    SecondRunAfterSaved =>
        IF CoversYesterday(after.df, primary_camera_name, after.yesterday)
        THEN SkipsFetchAndWrite
        ELSE RunEnded => (requests # <<>> /\ outcome # "AlreadyCurrent")

C3_Witness ==
    /\ SecondRunAfterSaved
    /\ CoversYesterday(after.df, primary_camera_name, after.yesterday)
    /\ RunEnded
    /\ outcome = "AlreadyCurrent"

\* C4: once old data is found, startdate is latest_date + 1 and yesterday is
\* today - 1; a run with startdate > yesterday ends AlreadyCurrent with no
\* request and no write, any other run issues exactly one request, for
\* [startdate, yesterday].
C4_FreshnessCheck ==
    (old_data_found /\ pc \in {"check", "fetch", "write", "done"}) =>
        /\ startdate = latest_date + 1
        /\ yesterday = today - 1
        /\ startdate > yesterday =>
              /\ requests = <<>>
              /\ writes = 0
              /\ store = store0
              /\ pc \in {"check", "done"}
              /\ RunEnded => outcome = "AlreadyCurrent"
        /\ startdate <= yesterday =>
              /\ pc \in {"write", "done"} => requests = << <<startdate, yesterday>> >>
              /\ pc \in {"check", "fetch"} => requests = <<>>
              /\ outcome # "AlreadyCurrent"

C4_Witness ==
    /\ RunEnded
    /\ old_data_found
    /\ startdate > yesterday
    /\ outcome = "AlreadyCurrent"
    /\ requests = <<>>

\* The run reached the fetch, or ended in one of the three listed ways.
PastBackup ==
    \/ pc \in {"fetch", "write"}
    \/ requests # <<>>
    \/ writes > 0
    \/ (RunEnded /\ outcome \in {"Saved", "AlreadyCurrent"})

\* C5: with a backup path, a run that reaches the fetch, writes the store or
\* ends Saved, AlreadyCurrent or with a failed fetch has written the backup
\* before, and the backup holds the table the store held when the run began.
C5_BackupBeforeFetch ==
    (backup_data_filepath /\ PastBackup) =>
        /\ backed_up
        /\ backup.exists
        /\ read_data(backup) = read_data(store0)
        /\ backup = to_csv(ff_to_date)

C5_Witness ==
    /\ backup_data_filepath
    /\ RunEnded
    /\ outcome = "Saved"
    /\ read_data(backup) = read_data(store0)
    /\ read_data(store) # read_data(backup)

\* The rows of a raw table that belong to the day d and the location l.
GroupOf(rows, d, l) ==
    {i \in 1..Len(rows) : ToDatetime(rows[i].FootfallDate) = d /\ rows[i].LocationName = l}

RECURSIVE TotalOver(_, _, _)
TotalOver(rows, idx, column) ==
    IF idx = {} THEN 0
    ELSE LET i == CHOOSE j \in idx : TRUE
         IN  rows[i][column] + TotalOver(rows, idx \ {i}, column)

MaxOfTotals(rows, d, l) ==
    Max2(TotalOver(rows, GroupOf(rows, d, l), "InCount"),
         TotalOver(rows, GroupOf(rows, d, l), "OutCount"))

MaxOfFirstRow(rows, d, l) ==
    LET f == CHOOSE i \in GroupOf(rows, d, l) : \A j \in GroupOf(rows, d, l) : i <= j
    IN  Max2(rows[f].InCount, rows[f].OutCount)

\* The cells of a frame for the day d and the column l.
CellsAt(df, d, l) == {df.rows[k].cells[l] : k \in {j \in 1..Len(df.rows) : df.rows[j].date = d}}

\* The groups of the returned batch that hold two raw rows or more.
RepeatedGroups ==
    {g \in (1..MaxDay) \X Locations : Cardinality(GroupOf(resp.rows, g[1], g[2])) >= 2}

ScenarioRun ==
    /\ RunEnded
    /\ outcome = "Saved"
    /\ store0 = ScenarioStore
    /\ resp = ScenarioResponse

\* C6 (as claimed): the total of a group of two or more raw rows is
\* max(InCount, OutCount) of its first row; the scenario ends with
\* CameraA = 100 on day 1 and CameraA = 30 on day 2.
C6_FirstRowWins ==
    /\ FetchReturned =>
          \A g \in RepeatedGroups :
              CellsAt(fetched.df, g[1], g[2]) = {MaxOfFirstRow(resp.rows, g[1], g[2])}
    /\ ScenarioRun =>
          read_data(store).rows =
              <<[date |-> 1, cells |-> [l \in {"CameraA"} |-> 100]],
                [date |-> 2, cells |-> [l \in {"CameraA"} |-> 30]]>>

\* C6 (amended): the total of a group of two or more raw rows is the larger
\* of the sum of their InCount and the sum of their OutCount; the scenario
\* ends with CameraA = 100 on day 1 and CameraA = 60 on day 2.
C6_MaxOfSums ==
    /\ FetchReturned =>
          \A g \in RepeatedGroups :
              CellsAt(fetched.df, g[1], g[2]) = {MaxOfTotals(resp.rows, g[1], g[2])}
    /\ ScenarioRun =>
          read_data(store).rows =
              <<[date |-> 1, cells |-> [l \in {"CameraA"} |-> 100]],
                [date |-> 2, cells |-> [l \in {"CameraA"} |-> 60]]>>

C6_Witness == ScenarioRun /\ RepeatedGroups # {}

AggDone == pc = "agg_done"

\* C7 (as claimed): a response whose table has data rows and no OutCount
\* column makes get_new_data raise the missing-columns error, whatever the
\* other cells hold.
C7_MissingColumnsFirst ==
    (/\ AggDone
     /\ resp.kind = "Table"
     /\ resp.nchildren > 3
     /\ Len(resp.rows) >= 1
     /\ "OutCount" \notin resp.header) => fetched.err = "MissingColumns"

\* C8 (as claimed): a response whose table has a header row and no data row
\* makes get_new_data raise the no-data error, whatever the number of
\* children of the table element.
C8_HeaderOnlyIsNoData ==
    (AggDone /\ resp.kind = "Table" /\ resp.rows = <<>>) => fetched.err = "NoData"

StrictlyAscending(rows) ==
    \A i \in 1..Len(rows) : \A j \in 1..Len(rows) : i < j => rows[i].date < rows[j].date

\* C9 (as claimed): the dates of the store file are unique and ascending
\* after any sequence of runs.
C9_StoreIndexAscending == store.exists => StrictlyAscending(read_data(store).rows)

InputDates == {ToDatetime(resp.rows[i].FootfallDate) : i \in 1..Len(resp.rows)}
InputLocations == {resp.rows[i].LocationName : i \in 1..Len(resp.rows)}

\* C10: the table get_new_data returns has one row per date of the input and
\* one column per location of the input, the rows in ascending date order;
\* a cell is the larger of the group's InCount sum and OutCount sum, and 0
\* for a group without rows.
C10_AggregatedTable ==
    (AggDone /\ fetched.err = "none") =>
        LET df == fetched.df
        IN  /\ {df.rows[k].date : k \in 1..Len(df.rows)} = InputDates
            /\ Len(df.rows) = Cardinality(InputDates)
            /\ df.cols = InputLocations
            /\ StrictlyAscending(df.rows)
            /\ \A k \in 1..Len(df.rows) :
                  /\ DOMAIN df.rows[k].cells = InputLocations
                  /\ \A l \in InputLocations :
                        df.rows[k].cells[l] =
                            IF GroupOf(resp.rows, df.rows[k].date, l) = {} THEN 0
                            ELSE MaxOfTotals(resp.rows, df.rows[k].date, l)

C10_Witness ==
    /\ AggDone
    /\ fetched.err = "none"
    /\ Len(fetched.df.rows) = 2
    /\ Cardinality(fetched.df.cols) = 2
    /\ \E k \in 1..2 : \E l \in Locations : fetched.df.rows[k].cells[l] = 0
                                            /\ GroupOf(resp.rows, fetched.df.rows[k].date, l) = {}

====
